---- MODULE Spec2Model ----
(***************************************************************************)
(* MemoraAI: the background processing pipeline of one uploaded video.     *)
(*                                                                         *)
(* The model follows backend/controllers (uploadVideo, deleteVideo,        *)
(* processVideoInBackground), backend/models/Video.js (the persisted       *)
(* record and its update methods), the insights service                    *)
(* (runMultiModalInsights, generateHighlightReel) and the AI service       *)
(* (transcribeVideo, analyzeVideoContent, generateVideoTags).              *)
(*                                                                         *)
(* A run of processVideoInBackground works on an in-memory document        *)
(* (doc[r]) loaded once by findById; every save() writes the paths the     *)
(* run has modified since its last successful save (dirty[r]) to the       *)
(* persisted record (db).  Each await of the source is one step, so the    *)
(* HTTP handlers and the detached highlight task interleave with the run   *)
(* at exactly the points where the event loop can switch.                  *)
(***************************************************************************)
EXTENDS Naturals, Sequences, FiniteSets

(* ---- bounds of the model ---- *)

\* how many save() calls may fail with a persistence error while the record exists
MaxSaveFailures == 2
\* how many invocations of processVideoInBackground the model follows for the record
MaxRuns == 2
\* length of the call log of transcribeVideo
MaxCalls == 2
\* largest maxRetries given to retryWithBackoff
MaxAttempts == 3
\* how many calls of updateProcessingStatus a sequence of calls holds
MaxStatusCalls == 3

Runs == 1..MaxRuns

(* ---- values ---- *)

\* processing.status and the three stage statuses (Video.js enum)
Statuses == {"pending", "processing", "completed", "failed"}
Terminal == {"completed", "failed"}

\* the two placeholder transcripts of generateEnhancedMockTranscription
MockTexts == {"mock1", "mock2"}

\* inputs of transcribeVideo (videoUrl, videoPublicId) used by the call log
VideoInputs == {"v1", "v2"}

\* the schema paths of a Video document that the pipeline reads or writes
Fields ==
  {"status", "error", "startedAt", "completedAt",
   "tStatus", "aStatus", "iStatus", "iProgress",
   "text", "audioId", "analysis", "tags",
   "spk", "sent", "topics", "kw", "hl"}

\* a freshly created Video document: schema defaults.  startedAt and
\* completedAt hold a time, 0 when the path is not set.
NewVideo ==
  [status |-> "pending", error |-> "none", startedAt |-> 0, completedAt |-> 0,
   tStatus |-> "pending", aStatus |-> "pending", iStatus |-> "pending", iProgress |-> 0,
   text |-> "none", audioId |-> FALSE, analysis |-> FALSE, tags |-> {},
   spk |-> "empty", sent |-> "empty", topics |-> "empty", kw |-> "empty",
   hl |-> "pending"]

VARIABLES
  env,          \* process.env keys: [groq, assembly, openai] -> BOOLEAN
  alive,        \* the server process is running (process.exit not called)
  upPc,         \* position of the uploadVideo handler
  delPc,        \* position of the deleteVideo handler
  delSnap,      \* the document deleteVideo loaded: whether it holds an audio public id
  delOk,        \* a deleteVideo request has been answered with 200
  dbExists,     \* the Video record exists in the database
  deleted,      \* findByIdAndDelete has removed the record
  db,           \* the persisted record
  blobs,        \* blobs held by the storage provider
  pc,           \* per run: position in processVideoInBackground
  doc,          \* per run: the in-memory document
  dirty,        \* per run: paths modified in memory and not yet persisted
  errs,         \* per run: video.processing.errors (in memory only)
  caught,       \* per run: message of the error the next catch block handles
  hlPc,         \* per run: position of the detached generateHighlightReel task
  saveFails,    \* persistence errors injected so far
  started,      \* number of processVideoInBackground invocations
  missingSeen,  \* per run: findById or a save has found the record missing
  lateAdapter,  \* per run: an adapter was called after missingSeen
  raised,       \* per run: the run rejected (raised an error to its caller)
  outer,        \* per run: the outer catch block was entered
  insRan,       \* per run: sub-analyses whose provider was called
  termErr,      \* per run: stages whose provider answered with a terminal error
  res,          \* per run: results the run holds in local variables
  tvLog,        \* call log of transcribeVideo: <<[input, text, error]>>
  rw,           \* a call of retryWithBackoff: its arguments and its progress
  upd,          \* the updateVideo handler: its position and the document it loaded
  ups           \* calls of updateProcessingStatus: the clock, their number, the first 'processing'

vars ==
  <<env, alive, upPc, delPc, delSnap, delOk, dbExists, deleted, db, blobs, pc, doc, dirty,
    errs, caught, hlPc, saveFails, started, missingSeen, lateAdapter, raised, outer,
    insRan, termErr, res, tvLog, rw, upd, ups>>

runVars ==
  <<pc, doc, dirty, errs, caught, hlPc, missingSeen, lateAdapter, raised, outer, insRan, termErr,
    res>>

(* ---- the in-memory document and save() ---- *)

\* a document under modification: d the field values, m the modified paths
Mem(r) == [d |-> doc[r], m |-> dirty[r]]

\* assignment to a schema path: the path is marked modified when the value changes
Put(st, f, v) ==
  [d |-> [st.d EXCEPT ![f] = v],
   m |-> IF st.d[f] = v THEN st.m ELSE st.m \cup {f}]

\* assignment of a fresh value (new Date(), a new object): always marked modified
Touch(st, f, v) == [d |-> [st.d EXCEPT ![f] = v], m |-> st.m \cup {f}]

Clean(st) == [d |-> st.d, m |-> {}]

SaveOutcomes == {"ok", "fail"}

\* save() succeeds only if the record exists; it fails when the record is
\* missing (DocumentNotFoundError) or on a persistence error
CanSave(o) ==
  IF o = "ok" THEN dbExists ELSE (~dbExists \/ saveFails < MaxSaveFailures)

SaveMessage == IF dbExists THEN "saveError" ELSE "notFound"

\* document.save() of run r's document in state st; `after` is the in-memory
\* state the step leaves behind when the save succeeded
SaveEffect(r, st, o, after) ==
  /\ CanSave(o)
  /\ IF o = "ok"
       THEN /\ db' = [f \in Fields |-> IF f \in st.m THEN st.d[f] ELSE db[f]]
            /\ doc' = [doc EXCEPT ![r] = after.d]
            /\ dirty' = [dirty EXCEPT ![r] = after.m]
            /\ UNCHANGED <<saveFails, missingSeen>>
       ELSE /\ doc' = [doc EXCEPT ![r] = st.d]
            /\ dirty' = [dirty EXCEPT ![r] = st.m]
            /\ saveFails' = IF dbExists THEN saveFails + 1 ELSE saveFails
            /\ missingSeen' = [missingSeen EXCEPT ![r] = @ \/ ~dbExists]
            /\ UNCHANGED db

Save(r, st, o) == SaveEffect(r, st, o, Clean(st))

\* variant: every call with status 'processing' sets startedAt
updateProcessingStatusAt_always(st, status, error, now) ==
  LET s1 == Put(st, "status", status)
      s2 == IF error # "none" THEN Put(s1, "error", error) ELSE s1
      s3 == IF status = "processing" THEN Touch(s2, "startedAt", now) ELSE s2
  IN  IF status \in Terminal THEN Touch(s3, "completedAt", now) ELSE s3

\* Video.updateProcessingStatus(status, error), up to its save(), called at
\* time now (the value of new Date())
updateProcessingStatusAt(st, status, error, now) ==
  LET s1 == Put(st, "status", status)
      s2 == IF error # "none" THEN Put(s1, "error", error) ELSE s1
      s3 == IF status = "processing" /\ s2.d.startedAt = 0
              THEN Touch(s2, "startedAt", now) ELSE s2
  IN  IF status \in Terminal THEN Touch(s3, "completedAt", now) ELSE s3

\* the same where the time of the call does not matter: every time is 1
updateProcessingStatus(st, status, error) == updateProcessingStatusAt(st, status, error, 1)

\* the local variables of a run before any adapter has returned
NoRes ==
  [text |-> "none", audio |-> FALSE, tags |-> {},
   spk |-> "empty", sent |-> "empty", topics |-> "empty", kw |-> "empty"]

(* ---- initial state ---- *)

\* the configurations of API keys that the pipeline can tell apart: it reads
\* ASSEMBLYAI_API_KEY only when an audio url exists (which needs Groq) and
\* OPENAI_API_KEY only in (OPENAI_API_KEY || GROQ_API_KEY)
Envs ==
  {[groq |-> FALSE, assembly |-> FALSE, openai |-> FALSE],
   [groq |-> FALSE, assembly |-> TRUE, openai |-> TRUE],
   [groq |-> TRUE, assembly |-> FALSE, openai |-> FALSE],
   [groq |-> TRUE, assembly |-> TRUE, openai |-> TRUE]}

\* the state after construction, with configuration e and with fails
\* persistence errors already behind it
Start(e, fails) ==
  /\ env = e
  /\ alive = TRUE
  /\ upPc = "idle"
  /\ delPc = "idle"
  /\ delSnap = FALSE
  /\ delOk = FALSE
  /\ dbExists = FALSE
  /\ deleted = FALSE
  /\ db = NewVideo
  /\ blobs = {}
  /\ pc = [r \in Runs |-> "idle"]
  /\ doc = [r \in Runs |-> NewVideo]
  /\ dirty = [r \in Runs |-> {}]
  /\ errs = [r \in Runs |-> [transcription |-> "none", aiAnalysis |-> "none"]]
  /\ caught = [r \in Runs |-> "none"]
  /\ hlPc = [r \in Runs |-> "idle"]
  /\ saveFails = fails
  /\ started = 0
  /\ missingSeen = [r \in Runs |-> FALSE]
  /\ lateAdapter = [r \in Runs |-> FALSE]
  /\ raised = [r \in Runs |-> FALSE]
  /\ outer = [r \in Runs |-> FALSE]
  /\ insRan = [r \in Runs |-> {}]
  /\ termErr = [r \in Runs |-> {}]
  /\ res = [r \in Runs |-> NoRes]
  /\ tvLog = <<>>
  /\ upd = [pc |-> "idle", tags |-> {}]
  /\ ups = [now |-> 0, calls |-> 0, first |-> 0]

\* no call of retryWithBackoff
RwIdle ==
  [fn |-> <<>>, max |-> 0, base |-> 0, attempt |-> 0, calls |-> 0, sleeps |-> <<>>,
   pc |-> "idle", result |-> 0, error |-> "none"]

Init == (\E e \in Envs : Start(e, 0)) /\ rw = RwIdle

(* ---- uploadVideo (POST /api/videos/upload) ---- *)

\* upload to the storage provider, thumbnail, Video.create
uploadVideo_create ==
  /\ alive /\ upPc = "idle"
  /\ \E o \in {"uploadFails", "createFails", "ok"} :
       /\ blobs' = IF o = "uploadFails" THEN blobs ELSE blobs \cup {"source"}
       /\ dbExists' = (o = "ok")
       /\ db' = NewVideo
       /\ upPc' = IF o = "ok" THEN "stats" ELSE "error"
  /\ UNCHANGED <<env, ups, rw, upd, alive, delPc, delSnap, delOk, deleted, saveFails, started, tvLog>>
  /\ UNCHANGED runVars

\* User.updateStats: a save() of the user document, which may reject; the
\* rejection goes to next(error) and the handler ends
uploadVideo_updateStats ==
  /\ alive /\ upPc = "stats"
  /\ \E ok \in BOOLEAN : upPc' = IF ok THEN "trigger" ELSE "error"
  /\ UNCHANGED <<env, ups, rw, upd, alive, delPc, delSnap, delOk, dbExists, deleted, db, blobs, saveFails,
                 started, tvLog>>
  /\ UNCHANGED runVars

\* a call of processVideoInBackground(videoId): the run starts at findById
processVideoInBackground_call(r) ==
  /\ r = started + 1
  /\ pc[r] = "idle"
  /\ pc' = [pc EXCEPT ![r] = "find"]
  /\ started' = started + 1

\* processVideoInBackground(video._id), not awaited, then the 201 response
uploadVideo_trigger ==
  /\ alive /\ upPc = "trigger"
  /\ processVideoInBackground_call(1)
  /\ upPc' = "done"
  /\ UNCHANGED <<env, ups, rw, upd, alive, delPc, delSnap, delOk, dbExists, deleted, db, blobs, saveFails, tvLog>>
  /\ UNCHANGED <<doc, dirty, errs, caught, hlPc, missingSeen, lateAdapter, raised, outer,
                 insRan, termErr, res>>

(* ---- deleteVideo (DELETE /api/videos/:id) ---- *)

\* Video.findOne: 404 when there is no record, else the handler holds a copy.
\* A request that has been answered leaves the handler ready for the next one.
deleteVideo_find ==
  /\ alive /\ delPc = "idle"
  /\ IF dbExists
       THEN delPc' = "loaded" /\ delSnap' = db.audioId
       ELSE delPc' = "idle" /\ delSnap' = delSnap
  /\ UNCHANGED <<env, ups, rw, upd, alive, upPc, delOk, dbExists, deleted, db, blobs, saveFails, started,
                 tvLog>>
  /\ UNCHANGED runVars

\* the rest of deleteVideo: deleteVideoFromCloudinary; deleteAudioFromCloudinary
\* when the loaded document has an audio public id (a failure is only logged);
\* Video.findByIdAndDelete; User.updateStats; the 200 response.  The run of the
\* pipeline never reads the blob store, so these awaits are taken as one step.
deleteVideo_remove ==
  /\ alive /\ delPc = "loaded"
  /\ \E o \in {"sourceFails", "deleteFails", "statsFail", "ok"}, audioOk \in BOOLEAN :
       /\ blobs' = IF o = "sourceFails" THEN blobs
                   ELSE (blobs \ {"source"}) \ (IF delSnap /\ audioOk THEN {"audio"} ELSE {})
       /\ dbExists' = IF o \in {"sourceFails", "deleteFails"} THEN dbExists ELSE FALSE
       /\ deleted' = IF o \in {"sourceFails", "deleteFails"} THEN deleted
                     ELSE (deleted \/ dbExists)
       /\ db' = IF o \in {"sourceFails", "deleteFails"} THEN db ELSE NewVideo
       /\ delOk' = (delOk \/ o = "ok")
  /\ delPc' = "idle"
  /\ delSnap' = FALSE
  /\ UNCHANGED <<env, ups, rw, upd, alive, upPc, saveFails, started, tvLog>>
  /\ UNCHANGED runVars

(* ---- the AI service ---- *)

\* generateEnhancedMockTranscription: one of the two placeholder transcripts,
\* picked with Math.random()
generateEnhancedMockTranscription == MockTexts

\* variant: a missing Groq key is reported as an error
transcribeVideo_throw(groq) ==
  IF ~groq
    THEN {[text |-> "none", audio |-> FALSE, uploaded |-> FALSE, error |-> "notConfigured",
           terminal |-> FALSE]}
    ELSE {[text |-> "real", audio |-> TRUE, uploaded |-> TRUE, error |-> "none",
           terminal |-> FALSE]}

\* transcribeVideo(videoUrl, videoPublicId): what it can resolve to.  text is
\* the transcript, audio whether the result carries the audio public id,
\* uploaded whether extractAndUploadAudioFromVideo stored an audio blob.
\* The provider's transcript ("real") is returned as it is, and it can be the
\* empty string.  error is the message it rejects with: always "none", since every failure
\* (and the missing Groq key) ends in the placeholder transcript.  terminal
\* tells that the provider was called and answered with a non-retryable
\* error, which retryWithBackoff rethrows and the catch block replaces by the
\* placeholder.
transcribeVideo(groq) ==
  IF ~groq
    THEN {[text |-> m, audio |-> FALSE, uploaded |-> FALSE, error |-> "none",
           terminal |-> FALSE] : m \in generateEnhancedMockTranscription}
    ELSE {[text |-> t, audio |-> TRUE, uploaded |-> TRUE, error |-> "none",
           terminal |-> FALSE] : t \in {"real", ""}}
         \cup {[text |-> m, audio |-> c[1], uploaded |-> c[2], error |-> "none",
                terminal |-> c[3]] :
                 m \in generateEnhancedMockTranscription,
                 c \in {<<TRUE, TRUE, TRUE>>, <<TRUE, TRUE, FALSE>>,
                        <<FALSE, TRUE, TRUE>>, <<FALSE, TRUE, FALSE>>,
                        <<FALSE, FALSE, FALSE>>}}

\* analyzeVideoContent: the tag names of the analysis it resolves to (the
\* provider's, or those of generateEnhancedMockAnalysis); it never rejects
\* The provider's tag names are kept as it spells them ("AI").
\* terminal: the provider answered with a non-retryable error or with a
\* payload that holds no JSON, and the catch block returned the mock analysis
analyzeVideoContent(groq) ==
  IF groq
    THEN {[tags |-> {"AI"}, terminal |-> FALSE],
          [tags |-> {"video"}, terminal |-> TRUE],
          [tags |-> {"video"}, terminal |-> FALSE]}
    ELSE {[tags |-> {"video"}, terminal |-> FALSE]}

\* generateVideoTags: the tags it resolves to; it never rejects
generateVideoTags(groq) ==
  IF groq THEN {{"ai"}, {"video", "content"}} ELSE {{"video", "content"}}

(* ---- processVideoInBackground ---- *)

\* what a step of a run leaves alone outside the run itself
RunFrame == UNCHANGED <<env, ups, rw, upd, upPc, delPc, delSnap, delOk, dbExists, deleted, started>>

\* `await video.save()` with the continuation on success and the catch block on failure
SaveStep(r, st, okPc, failPc) ==
  \E o \in SaveOutcomes :
    /\ Save(r, st, o)
    /\ pc' = [pc EXCEPT ![r] = IF o = "ok" THEN okPc ELSE failPc]
    /\ caught' = [caught EXCEPT ![r] = IF o = "ok" THEN "none" ELSE SaveMessage]

\* an external capability is called by run r
AdapterCall(r) == lateAdapter' = [lateAdapter EXCEPT ![r] = @ \/ missingSeen[r]]

\* Video.findById: null ends the run, a database error goes to the outer
\* catch block, which has no document to update
pvb_find(r) ==
  /\ alive /\ pc[r] = "find"
  /\ \/ /\ dbExists
        /\ doc' = [doc EXCEPT ![r] = db]
        /\ dirty' = [dirty EXCEPT ![r] = {}]
        /\ pc' = [pc EXCEPT ![r] = "markProcessing"]
        /\ UNCHANGED <<saveFails, outer, missingSeen>>
     \/ /\ ~dbExists
        /\ pc' = [pc EXCEPT ![r] = "done"]
        /\ missingSeen' = [missingSeen EXCEPT ![r] = TRUE]
        /\ UNCHANGED <<doc, dirty, saveFails, outer>>
     \/ /\ dbExists /\ saveFails < MaxSaveFailures
        /\ saveFails' = saveFails + 1
        /\ outer' = [outer EXCEPT ![r] = TRUE]
        /\ pc' = [pc EXCEPT ![r] = "done"]
        /\ UNCHANGED <<doc, dirty, missingSeen>>
  /\ RunFrame
  /\ UNCHANGED <<alive, db, blobs, errs, caught, hlPc, lateAdapter, raised, insRan, termErr, res,
                 tvLog>>

\* await video.updateProcessingStatus('processing')
pvb_markProcessing(r) ==
  /\ alive /\ pc[r] = "markProcessing"
  /\ SaveStep(r, updateProcessingStatus(Mem(r), "processing", "none"), "tMark", "outer")
  /\ RunFrame
  /\ UNCHANGED <<alive, blobs, errs, hlPc, lateAdapter, raised, outer, insRan, termErr, res, tvLog>>

\* Step 1: transcriptionStatus = 'processing'; save
pvb_tMark(r) ==
  /\ alive /\ pc[r] = "tMark"
  /\ SaveStep(r, Put(Mem(r), "tStatus", "processing"), "tCall", "tCatch")
  /\ RunFrame
  /\ UNCHANGED <<alive, blobs, errs, hlPc, lateAdapter, raised, outer, insRan, termErr, res, tvLog>>

\* Promise.race([transcribeVideo(...), 5 minute timeout])
pvb_tCall(r) ==
  /\ alive /\ pc[r] = "tCall"
  /\ \E out \in transcribeVideo(env.groq), timedOut \in BOOLEAN :
       /\ blobs' = IF out.uploaded THEN blobs \cup {"audio"} ELSE blobs
       /\ termErr' = [termErr EXCEPT ![r] =
                        IF out.terminal THEN @ \cup {"transcription"} ELSE @]
       /\ IF out.error # "none" \/ timedOut
            THEN /\ pc' = [pc EXCEPT ![r] = "tCatch"]
                 /\ caught' = [caught EXCEPT ![r] =
                                IF out.error # "none" THEN out.error ELSE "timeout"]
                 /\ res' = res
            ELSE /\ pc' = [pc EXCEPT ![r] = "tUpdate"]
                 /\ caught' = caught
                 /\ res' = [res EXCEPT ![r].text = out.text, ![r].audio = out.audio]
  /\ AdapterCall(r)
  /\ RunFrame
  /\ UNCHANGED <<alive, db, doc, dirty, errs, hlPc, saveFails, missingSeen, raised, outer,
                 insRan, tvLog>>

\* variant: a new transcript resets the stages that were derived from the old one
updateTranscription_cascade(st, text, audio) ==
  LET s1 == Touch(st, "text", text)
      s2 == IF audio THEN Put(s1, "audioId", TRUE) ELSE s1
  IN  Put(Put(Put(s2, "tStatus", "completed"), "aStatus", "pending"), "iStatus", "pending")

\* Video.updateTranscription(transcriptionData), up to its save()
updateTranscription(st, text, audio) ==
  LET s1 == Touch(st, "text", text)
      s2 == IF audio THEN Put(s1, "audioId", TRUE) ELSE s1
  IN  Put(s2, "tStatus", "completed")

\* await video.updateTranscription(transcriptionData)
pvb_tUpdate(r) ==
  /\ alive /\ pc[r] = "tUpdate"
  /\ SaveStep(r, updateTranscription(Mem(r), res[r].text, res[r].audio), "tDone", "tCatch")
  /\ res' = [res EXCEPT ![r] = NoRes]
  /\ RunFrame
  /\ UNCHANGED <<alive, blobs, errs, hlPc, lateAdapter, raised, outer, insRan, termErr, tvLog>>

\* transcriptionStatus = 'completed'; delete errors.transcription; save
pvb_tDone(r) ==
  /\ alive /\ pc[r] = "tDone"
  /\ SaveStep(r, Put(Mem(r), "tStatus", "completed"), "aMark", "tCatch")
  /\ errs' = [errs EXCEPT ![r].transcription = "none"]
  /\ RunFrame
  /\ UNCHANGED <<alive, blobs, hlPc, lateAdapter, raised, outer, insRan, termErr, res, tvLog>>

\* variant: the Transcription catch block skips the remaining stages
pvb_tCatch_abort(r) ==
  /\ alive /\ pc[r] = "tCatch"
  /\ SaveStep(r, Put(Mem(r), "tStatus", "failed"), "final", "outer")
  /\ errs' = [errs EXCEPT ![r].transcription = caught[r]]
  /\ RunFrame
  /\ UNCHANGED <<alive, blobs, hlPc, lateAdapter, raised, outer, insRan, termErr, res, tvLog>>

\* variant: the Transcription catch block records the message only and
\* leaves the stage status as it is
pvb_tCatch_unmarked(r) ==
  /\ alive /\ pc[r] = "tCatch"
  /\ SaveStep(r, Mem(r), "aMark", "outer")
  /\ errs' = [errs EXCEPT ![r].transcription = caught[r]]
  /\ RunFrame
  /\ UNCHANGED <<alive, blobs, hlPc, lateAdapter, raised, outer, insRan, termErr, res, tvLog>>

\* catch of Step 1: transcriptionStatus = 'failed'; errors.transcription; save.
\* A failure of this save leaves the inner try and reaches the outer catch.
pvb_tCatch(r) ==
  /\ alive /\ pc[r] = "tCatch"
  /\ SaveStep(r, Put(Mem(r), "tStatus", "failed"), "aMark", "outer")
  /\ errs' = [errs EXCEPT ![r].transcription = caught[r]]
  /\ RunFrame
  /\ UNCHANGED <<alive, blobs, hlPc, lateAdapter, raised, outer, insRan, termErr, res, tvLog>>

\* variant: a failed save at the start of Step 2 is swallowed
pvb_aMark_swallow(r) ==
  /\ alive /\ pc[r] = "aMark"
  /\ SaveStep(r, Put(Mem(r), "aStatus", "processing"), "aCall", "aCall")
  /\ RunFrame
  /\ UNCHANGED <<alive, blobs, errs, hlPc, lateAdapter, raised, outer, insRan, termErr, res, tvLog>>

\* Step 2: aiAnalysisStatus = 'processing'; save
pvb_aMark(r) ==
  /\ alive /\ pc[r] = "aMark"
  /\ SaveStep(r, Put(Mem(r), "aStatus", "processing"), "aCall", "aCatch")
  /\ RunFrame
  /\ UNCHANGED <<alive, blobs, errs, hlPc, lateAdapter, raised, outer, insRan, termErr, res, tvLog>>

\* await analyzeVideoContent(thumbnail, transcription text)
pvb_aCall(r) ==
  /\ alive /\ pc[r] = "aCall"
  /\ \E out \in analyzeVideoContent(env.groq) :
       /\ res' = [res EXCEPT ![r].tags = out.tags]
       /\ termErr' = [termErr EXCEPT ![r] =
                        IF out.terminal THEN @ \cup {"aiAnalysis"} ELSE @]
  /\ pc' = [pc EXCEPT ![r] = "aUpdate"]
  /\ AdapterCall(r)
  /\ RunFrame
  /\ UNCHANGED <<alive, db, blobs, doc, dirty, errs, caught, hlPc, saveFails, missingSeen,
                 raised, outer, insRan, tvLog>>

\* Video.updateAiAnalysis(analysisData), up to its save()
updateAiAnalysis(st, tags) ==
  Put(Put(Touch(st, "analysis", TRUE), "aStatus", "completed"),
      "tags", st.d.tags \cup tags)

\* await video.updateAiAnalysis(validatedAnalysis)
pvb_aUpdate(r) ==
  /\ alive /\ pc[r] = "aUpdate"
  /\ SaveStep(r, updateAiAnalysis(Mem(r), res[r].tags), "aTags", "aCatch")
  /\ res' = [res EXCEPT ![r] = NoRes]
  /\ RunFrame
  /\ UNCHANGED <<alive, blobs, errs, hlPc, lateAdapter, raised, outer, insRan, termErr, tvLog>>

\* await generateVideoTags(title, description, transcription text)
pvb_aTags(r) ==
  /\ alive /\ pc[r] = "aTags"
  /\ \E tags \in generateVideoTags(env.groq) :
       res' = [res EXCEPT ![r].tags = tags]
  /\ pc' = [pc EXCEPT ![r] = "aDone"]
  /\ AdapterCall(r)
  /\ RunFrame
  /\ UNCHANGED <<alive, db, blobs, doc, dirty, errs, caught, hlPc, saveFails, missingSeen,
                 raised, outer, insRan, termErr, tvLog>>

\* merge the generated tags; aiAnalysisStatus = 'completed';
\* delete errors.aiAnalysis; save
pvb_aDone(r) ==
  /\ alive /\ pc[r] = "aDone"
  /\ SaveStep(r, Put(Put(Mem(r), "tags", doc[r].tags \cup res[r].tags),
                     "aStatus", "completed"),
              "iMark", "aCatch")
  /\ errs' = [errs EXCEPT ![r].aiAnalysis = "none"]
  /\ res' = [res EXCEPT ![r] = NoRes]
  /\ RunFrame
  /\ UNCHANGED <<alive, blobs, hlPc, lateAdapter, raised, outer, insRan, termErr, tvLog>>

\* catch of Step 2: aiAnalysisStatus = 'failed'; errors.aiAnalysis; save
pvb_aCatch(r) ==
  /\ alive /\ pc[r] = "aCatch"
  /\ SaveStep(r, Put(Mem(r), "aStatus", "failed"), "iMark", "outer")
  /\ errs' = [errs EXCEPT ![r].aiAnalysis = caught[r]]
  /\ RunFrame
  /\ UNCHANGED <<alive, blobs, hlPc, lateAdapter, raised, outer, insRan, termErr, res, tvLog>>

\* Step 3: insightsStatus = 'processing'; insightsProgress = 0; save
pvb_iMark(r) ==
  /\ alive /\ pc[r] = "iMark"
  /\ SaveStep(r, Put(Put(Mem(r), "iStatus", "processing"), "iProgress", 0),
              "mMark", "iCatch")
  /\ RunFrame
  /\ UNCHANGED <<alive, blobs, errs, hlPc, lateAdapter, raised, outer, insRan, termErr, res, tvLog>>

(* ---- runMultiModalInsights ---- *)

\* insights.processingStatus = 'processing' (not a schema path); save
rmi_mark(r) ==
  /\ alive /\ pc[r] = "mMark"
  /\ SaveStep(r, Mem(r), "mSpk", "mCatch")
  /\ RunFrame
  /\ UNCHANGED <<alive, blobs, errs, hlPc, lateAdapter, raised, outer, insRan, termErr, res, tvLog>>

\* video.transcription.segments: the schema of transcription has no segments
\* path, so the document never holds segments
HasSegments(d) == FALSE

\* video.transcription?.text is truthy: neither null nor the empty string
HasText(d) == d.text \notin {"none", ""}

\* whether each sub-analysis calls its provider
Runs_spk(d) == d.audioId /\ env.assembly
Runs_sent(d) == HasSegments(d)
Runs_topics(d) == HasText(d) /\ (env.openai \/ env.groq)
Runs_kw(d) == HasText(d) /\ (env.openai \/ env.groq)

\* variant: one try/catch around the four sub-analyses, so that a provider
\* error empties every result
SubAnalysis_shared(r, from, to, name, cond) ==
  /\ alive /\ pc[r] = from
  /\ IF cond
       THEN /\ \E v \in {"data", "empty"} :
                 res' = IF v = "empty" THEN [res EXCEPT ![r] = NoRes]
                                       ELSE [res EXCEPT ![r][name] = v]
            /\ insRan' = [insRan EXCEPT ![r] = @ \cup {name}]
            /\ AdapterCall(r)
       ELSE /\ res' = [res EXCEPT ![r][name] = "empty"]
            /\ UNCHANGED <<insRan, lateAdapter>>
  /\ pc' = [pc EXCEPT ![r] = to]
  /\ RunFrame
  /\ UNCHANGED <<alive, db, blobs, doc, dirty, errs, caught, hlPc, saveFails, missingSeen,
                 raised, outer, termErr, tvLog>>

\* one sub-analysis: when its condition holds the provider is called and its
\* result (or [] when it throws) is kept; otherwise the result is []
SubAnalysis(r, from, to, name, cond) ==
  /\ alive /\ pc[r] = from
  /\ IF cond
       THEN /\ \E v \in {"data", "empty"} : res' = [res EXCEPT ![r][name] = v]
            /\ insRan' = [insRan EXCEPT ![r] = @ \cup {name}]
            /\ AdapterCall(r)
       ELSE /\ res' = [res EXCEPT ![r][name] = "empty"]
            /\ UNCHANGED <<insRan, lateAdapter>>
  /\ pc' = [pc EXCEPT ![r] = to]
  /\ RunFrame
  /\ UNCHANGED <<alive, db, blobs, doc, dirty, errs, caught, hlPc, saveFails, missingSeen,
                 raised, outer, termErr, tvLog>>

rmi_spk(r) == SubAnalysis(r, "mSpk", "mSent", "spk", Runs_spk(doc[r]))
rmi_sent(r) == SubAnalysis(r, "mSent", "mTopics", "sent", Runs_sent(doc[r]))
rmi_topics(r) == SubAnalysis(r, "mTopics", "mKw", "topics", Runs_topics(doc[r]))
rmi_kw(r) == SubAnalysis(r, "mKw", "mSave", "kw", Runs_kw(doc[r]))

\* video.insights = { ...results, ... }: the four result lists are replaced
\* and the new object has no highlightReel
SetInsights(st, spk, sent, topics, kw) ==
  Put(Touch(Touch(Touch(Touch(st, "spk", spk), "sent", sent), "topics", topics), "kw", kw),
      "hl", "none")

\* video.insights = results; save
rmi_save(r) ==
  /\ alive /\ pc[r] = "mSave"
  /\ SaveStep(r, SetInsights(Mem(r), res[r].spk, res[r].sent, res[r].topics, res[r].kw),
              "iDone", "mCatch")
  /\ res' = [res EXCEPT ![r] = NoRes]
  /\ RunFrame
  /\ UNCHANGED <<alive, blobs, errs, hlPc, lateAdapter, raised, outer, insRan, termErr, tvLog>>

\* catch of runMultiModalInsights: empty lists; save.  A failure of this save
\* rejects runMultiModalInsights.
rmi_catch(r) ==
  /\ alive /\ pc[r] = "mCatch"
  /\ SaveStep(r, SetInsights(Mem(r), "empty", "empty", "empty", "empty"), "iDone", "iCatch")
  /\ res' = [res EXCEPT ![r] = NoRes]
  /\ RunFrame
  /\ UNCHANGED <<alive, blobs, errs, hlPc, lateAdapter, raised, outer, insRan, termErr, tvLog>>

(* ---- back in processVideoInBackground ---- *)

\* generateHighlightReel(video) up to its first await: fs is not imported in
\* the insights service, so reading the output file throws and the catch block
\* sets highlightReel.status = 'failed' and calls save()
generateHighlightReel_start(st) == Put(st, "hl", "failed")

\* insightsStatus = 'completed'; insightsProgress = 100; save; then
\* generateHighlightReel(video) is called without await
pvb_iDone(r) ==
  /\ alive /\ pc[r] = "iDone"
  /\ LET st == Put(Put(Mem(r), "iStatus", "completed"), "iProgress", 100)
     IN  \E o \in SaveOutcomes :
           /\ SaveEffect(r, st, o, generateHighlightReel_start(Clean(st)))
           /\ pc' = [pc EXCEPT ![r] = IF o = "ok" THEN "final" ELSE "iCatch"]
           /\ caught' = [caught EXCEPT ![r] = IF o = "ok" THEN "none" ELSE SaveMessage]
           /\ hlPc' = [hlPc EXCEPT ![r] = IF o = "ok" THEN "saving" ELSE @]
  /\ RunFrame
  /\ UNCHANGED <<alive, blobs, errs, lateAdapter, raised, outer, insRan, termErr, res, tvLog>>

\* catch of Step 3: insightsStatus = 'failed'; save
pvb_iCatch(r) ==
  /\ alive /\ pc[r] = "iCatch"
  /\ SaveStep(r, Put(Mem(r), "iStatus", "failed"), "final", "outer")
  /\ RunFrame
  /\ UNCHANGED <<alive, blobs, errs, hlPc, lateAdapter, raised, outer, insRan, termErr, res, tvLog>>

\* variant: success only when both stages completed
hasAnySuccess_both(d) == d.tStatus = "completed" /\ d.aStatus = "completed"

\* hasAnySuccess
hasAnySuccess(d) == d.tStatus = "completed" \/ d.aStatus = "completed"

\* await video.updateProcessingStatus(finalStatus, finalError)
pvb_final(r) ==
  /\ alive /\ pc[r] = "final"
  /\ SaveStep(r,
              IF hasAnySuccess(doc[r])
                THEN updateProcessingStatus(Mem(r), "completed", "none")
                ELSE updateProcessingStatus(Mem(r), "failed", "allFailed"),
              "done", "outer")
  /\ RunFrame
  /\ UNCHANGED <<alive, blobs, errs, hlPc, lateAdapter, raised, outer, insRan, termErr, res, tvLog>>

\* the status the outer catch block gives the record
OuterStatus(d) == "failed"

\* whether a failure of the outer catch block's own save leaves the function
OuterRethrows(o) == FALSE

\* the outer catch: updateProcessingStatus('failed', 'Processing error: ...')
\* inside its own try/catch
pvb_outer(r) ==
  /\ alive /\ pc[r] = "outer"
  /\ \E o \in SaveOutcomes :
       /\ Save(r, updateProcessingStatus(Mem(r), OuterStatus(doc[r]), "processingError"), o)
       /\ raised' = [raised EXCEPT ![r] = OuterRethrows(o)]
  /\ pc' = [pc EXCEPT ![r] = "done"]
  /\ caught' = [caught EXCEPT ![r] = "none"]
  /\ outer' = [outer EXCEPT ![r] = TRUE]
  /\ RunFrame
  /\ UNCHANGED <<alive, blobs, errs, hlPc, lateAdapter, insRan, termErr, res, tvLog>>

(* ---- the detached generateHighlightReel task ---- *)

\* the save() of the catch block completes; when it fails the task rejects,
\* and the server's unhandledRejection handler calls process.exit(1)
ghr_save(r) ==
  /\ alive /\ hlPc[r] = "saving"
  /\ \E o \in SaveOutcomes :
       /\ Save(r, Mem(r), o)
       /\ hlPc' = [hlPc EXCEPT ![r] = IF o = "ok" THEN "done" ELSE "rejected"]
       /\ alive' = (o = "ok")
  /\ RunFrame
  /\ UNCHANGED <<blobs, pc, errs, caught, lateAdapter, raised, outer, insRan, termErr, res, tvLog>>

(* ---- specification: one upload, one run, one delete request ---- *)

RunStep(r) ==
  \/ pvb_find(r) \/ pvb_markProcessing(r)
  \/ pvb_tMark(r) \/ pvb_tCall(r) \/ pvb_tUpdate(r) \/ pvb_tDone(r) \/ pvb_tCatch(r)
  \/ pvb_aMark(r) \/ pvb_aCall(r) \/ pvb_aUpdate(r) \/ pvb_aTags(r) \/ pvb_aDone(r)
  \/ pvb_aCatch(r)
  \/ pvb_iMark(r) \/ rmi_mark(r) \/ rmi_spk(r) \/ rmi_sent(r) \/ rmi_topics(r)
  \/ rmi_kw(r) \/ rmi_save(r) \/ rmi_catch(r) \/ pvb_iDone(r) \/ pvb_iCatch(r)
  \/ pvb_final(r) \/ pvb_outer(r) \/ ghr_save(r)

Next ==
  \/ uploadVideo_create \/ uploadVideo_updateStats \/ uploadVideo_trigger
  \/ deleteVideo_find \/ deleteVideo_remove
  \/ \E r \in Runs : RunStep(r)

Spec == Init /\ [][Next]_vars

(* ---- specification: a second invocation for the same record ---- *)

\* processVideoInBackground(videoId) called again for the record while
\* nothing in it looks at whether a run is already in flight
processVideoInBackground_retrigger ==
  /\ alive /\ started >= 1 /\ started < MaxRuns
  /\ processVideoInBackground_call(started + 1)
  /\ UNCHANGED <<env, ups, rw, upd, alive, upPc, delPc, delSnap, delOk, dbExists, deleted, db, blobs,
                 saveFails, tvLog>>
  /\ UNCHANGED <<doc, dirty, errs, caught, hlPc, missingSeen, lateAdapter, raised, outer,
                 insRan, termErr, res>>

\* the steps of a run that can be taken when no save fails
HappyStep(r) ==
  \/ pvb_find(r) \/ pvb_markProcessing(r)
  \/ pvb_tMark(r) \/ pvb_tCall(r) \/ pvb_tUpdate(r) \/ pvb_tDone(r) \/ pvb_tCatch(r)
  \/ pvb_aMark(r) \/ pvb_aCall(r) \/ pvb_aUpdate(r) \/ pvb_aTags(r) \/ pvb_aDone(r)
  \/ pvb_iMark(r) \/ rmi_mark(r) \/ rmi_spk(r) \/ rmi_sent(r) \/ rmi_topics(r)
  \/ rmi_kw(r) \/ rmi_save(r) \/ pvb_iDone(r) \/ pvb_final(r) \/ ghr_save(r)

\* no Groq key, and no persistence error
InitRetrigger ==
  /\ Start([groq |-> FALSE, assembly |-> FALSE, openai |-> FALSE], MaxSaveFailures)
  /\ rw = RwIdle

NextRetrigger ==
  \/ uploadVideo_create \/ uploadVideo_updateStats \/ uploadVideo_trigger
  \/ processVideoInBackground_retrigger
  \/ \E r \in Runs : HappyStep(r)

SpecRetrigger == InitRetrigger /\ [][NextRetrigger]_vars

(* ---- specification: the pipeline run again on a processed record ---- *)

\* processVideoInBackground(videoId) called again for the record after the
\* previous run and its highlight task have ended
processVideoInBackground_rerun ==
  /\ alive /\ started >= 1 /\ started < MaxRuns
  /\ pc[started] = "done" /\ hlPc[started] # "saving"
  /\ processVideoInBackground_call(started + 1)
  /\ UNCHANGED <<env, ups, rw, upd, alive, upPc, delPc, delSnap, delOk, dbExists, deleted, db,
                 blobs, saveFails, tvLog>>
  /\ UNCHANGED <<doc, dirty, errs, caught, hlPc, missingSeen, lateAdapter, raised, outer,
                 insRan, termErr, res>>

\* no API key, and no persistence error
InitRerun ==
  /\ Start([groq |-> FALSE, assembly |-> FALSE, openai |-> FALSE], MaxSaveFailures)
  /\ rw = RwIdle

NextRerun ==
  \/ uploadVideo_create \/ uploadVideo_updateStats \/ uploadVideo_trigger
  \/ processVideoInBackground_rerun
  \/ \E r \in Runs : HappyStep(r)

SpecRerun == InitRerun /\ [][NextRerun]_vars

(* ---- specification: transcribeVideo and the Transcription stage ---- *)

\* a call of transcribeVideo(videoUrl, videoPublicId), logged
transcribeVideo_call ==
  /\ Len(tvLog) < MaxCalls
  /\ \E input \in VideoInputs, out \in transcribeVideo(env.groq) :
       tvLog' = Append(tvLog, [input |-> input, text |-> out.text, error |-> out.error])
  /\ UNCHANGED <<env, ups, rw, upd, alive, upPc, delPc, delSnap, delOk, dbExists, deleted, db, blobs,
                 saveFails, started>>
  /\ UNCHANGED runVars

NextTranscribe ==
  \/ transcribeVideo_call
  \/ uploadVideo_create \/ uploadVideo_updateStats \/ uploadVideo_trigger
  \/ pvb_find(1) \/ pvb_markProcessing(1)
  \/ pvb_tMark(1) \/ pvb_tCall(1) \/ pvb_tUpdate(1) \/ pvb_tDone(1) \/ pvb_tCatch(1)

SpecTranscribe == Init /\ [][NextTranscribe]_vars

(* ---- specification: updateVideo during a run ---- *)

\* tag lists a PUT /api/videos/:id request carries
UserTags == {{"mine"}}

\* updateVideo: Video.findOne; 404 when the record is not there
updateVideo_find ==
  /\ alive /\ upd.pc = "idle" /\ dbExists
  /\ upd' = [pc |-> "loaded", tags |-> db.tags]
  /\ UNCHANGED <<env, ups, rw, alive, upPc, delPc, delSnap, delOk, dbExists, deleted, db, blobs,
                 saveFails, started, tvLog>>
  /\ UNCHANGED runVars

\* updateVideo: video.tags = tags || video.tags; save, which writes the tags
\* path when its value has changed
updateVideo_save ==
  /\ alive /\ upd.pc = "loaded" /\ dbExists
  /\ \E tags \in UserTags :
       /\ upd' = [pc |-> "done", tags |-> tags]
       /\ db' = IF tags # upd.tags THEN [db EXCEPT !.tags = tags] ELSE db
  /\ UNCHANGED <<env, ups, rw, alive, upPc, delPc, delSnap, delOk, dbExists, deleted, blobs,
                 saveFails, started, tvLog>>
  /\ UNCHANGED runVars

\* no API key, and no persistence error
InitUpdate ==
  /\ Start([groq |-> FALSE, assembly |-> FALSE, openai |-> FALSE], MaxSaveFailures)
  /\ rw = RwIdle

NextUpdate ==
  \/ uploadVideo_create \/ uploadVideo_updateStats \/ uploadVideo_trigger
  \/ updateVideo_find \/ updateVideo_save
  \/ HappyStep(1)

SpecUpdate == InitUpdate /\ [][NextUpdate]_vars

(* ---- specification: retryWithBackoff ---- *)

\* what an invocation of fn can do: resolve, or reject with an error that
\* carries this code / status
FnOutcomes == {"ok", "ETIMEDOUT", "status500", "status400"}

\* base delays passed at the call sites
BaseDelays == {3000, 5000}

\* variant: every error is retried
isRetryableError_all(e) == TRUE

\* isRetryableError: connection error codes, status >= 500, server_error,
\* or a message holding 'Connection error' or 'timeout'
isRetryableError(e) ==
  e \in {"ECONNRESET", "ENOTFOUND", "ETIMEDOUT", "ECONNREFUSED", "status500",
         "server_error", "Connection error", "timeout"}

\* Math.pow(2, n)
RECURSIVE Pow2(_)
Pow2(n) == IF n = 0 THEN 1 ELSE 2 * Pow2(n - 1)

\* variant: the exponent is the attempt number
backoffDelay_offByOne(base, attempt) == base * Pow2(attempt)

\* delay = baseDelay * Math.pow(2, attempt - 1)
backoffDelay(base, attempt) == base * Pow2(attempt - 1)

\* retryWithBackoff(fn, maxRetries, baseDelay) at the top of its loop
RwCall(fn, max, base) ==
  [fn |-> fn, max |-> max, base |-> base, attempt |-> 1, calls |-> 0, sleeps |-> <<>>,
   pc |-> "call", result |-> 0, error |-> "none"]

\* variant: when the attempts are used up a new error is thrown in place of
\* the last one
thrownError_wrapped(o, attempt, max) ==
  IF attempt = max THEN "maxRetriesExceeded" ELSE o

\* throw error: the error thrown is the one fn rejected with
thrownError(o, attempt, max) == o

\* one iteration up to the sleep: await fn(); return its result, or rethrow
\* on the last attempt or on a non-retryable error
retryWithBackoff_attempt ==
  /\ rw.pc = "call"
  /\ LET o == rw.fn[rw.attempt]
         next == IF o = "ok" THEN "returned"
                 ELSE IF rw.attempt = rw.max THEN "thrown"
                 ELSE IF ~isRetryableError(o) THEN "thrown"
                 ELSE "sleep"
     IN rw' = [rw EXCEPT !.calls = @ + 1,
                         !.pc = next,
                         !.result = IF o = "ok" THEN rw.attempt ELSE @,
                         !.error = IF next = "thrown"
                                     THEN thrownError(o, rw.attempt, rw.max) ELSE @]
  /\ UNCHANGED <<env, ups, alive, upPc, delPc, delSnap, delOk, dbExists, deleted, db, blobs,
                 saveFails, started, tvLog, upd>>
  /\ UNCHANGED runVars

\* await new Promise(resolve => setTimeout(resolve, delay)); next attempt
retryWithBackoff_sleep ==
  /\ rw.pc = "sleep"
  /\ rw' = [rw EXCEPT !.sleeps = Append(@, backoffDelay(rw.base, rw.attempt)),
                      !.attempt = @ + 1,
                      !.pc = "call"]
  /\ UNCHANGED <<env, ups, alive, upPc, delPc, delSnap, delOk, dbExists, deleted, db, blobs,
                 saveFails, started, tvLog, upd>>
  /\ UNCHANGED runVars

InitRetry ==
  /\ Start([groq |-> TRUE, assembly |-> FALSE, openai |-> FALSE], 0)
  /\ \E max \in 1..MaxAttempts, base \in BaseDelays :
       \E fn \in [1..max -> FnOutcomes] : rw = RwCall(fn, max, base)

NextRetry == retryWithBackoff_attempt \/ retryWithBackoff_sleep

SpecRetry == InitRetry /\ [][NextRetry]_vars

(* ---- specification: sequences of updateProcessingStatus calls ---- *)

\* error arguments of updateProcessingStatus: null or a message
StatusErrors == {"none", "allFailed"}

\* video.updateProcessingStatus(status, error) on the loaded document, at the
\* next time of the clock; its save() resolves or rejects
updateProcessingStatus_call ==
  /\ alive /\ pc[1] = "markProcessing" /\ ups.calls < MaxStatusCalls
  /\ \E status \in Statuses, error \in StatusErrors, o \in SaveOutcomes :
       /\ Save(1, updateProcessingStatusAt(Mem(1), status, error, ups.now + 1), o)
       /\ ups' = [now |-> ups.now + 1,
                  calls |-> ups.calls + 1,
                  first |-> IF status = "processing" /\ ups.first = 0
                              THEN ups.now + 1 ELSE ups.first]
  /\ UNCHANGED <<env, rw, upd, alive, upPc, delPc, delSnap, delOk, dbExists, deleted, blobs,
                 started, tvLog>>
  /\ UNCHANGED <<pc, errs, caught, hlPc, lateAdapter, raised, outer, insRan, termErr, res>>

InitStatus ==
  /\ Start([groq |-> FALSE, assembly |-> FALSE, openai |-> FALSE], 0)
  /\ rw = RwIdle

NextStatus ==
  \/ uploadVideo_create \/ uploadVideo_updateStats \/ uploadVideo_trigger
  \/ pvb_find(1)
  \/ updateProcessingStatus_call

SpecStatus == InitStatus /\ [][NextStatus]_vars

(* ---- specification: runMultiModalInsights on a processed record ---- *)

\* transcripts a processed record can hold: none, the empty one, a real one
StoredTexts == {"none", "", "real"}

\* a record whose pipeline has finished and whose highlight reel is stored:
\* highlightReel = { status: 'ready', url, segments }
ProcessedVideo(text, audio) ==
  [NewVideo EXCEPT !.status = "completed", !.startedAt = 1, !.completedAt = 1,
                   !.tStatus = IF text = "none" THEN "failed" ELSE "completed",
                   !.text = text, !.audioId = audio,
                   !.aStatus = "completed", !.analysis = TRUE, !.tags = {"video"},
                   !.iStatus = "completed", !.iProgress = 100, !.kw = "data",
                   !.hl = "ready"]

\* runMultiModalInsights(video) is entered with a document just loaded from
\* such a record
InitInsights ==
  \E e \in Envs, text \in StoredTexts, audio \in BOOLEAN :
    /\ text = "none" => ~audio
    /\ env = e
    /\ alive = TRUE
    /\ upPc = "done"
    /\ delPc = "idle"
    /\ delSnap = FALSE
    /\ delOk = FALSE
    /\ dbExists = TRUE
    /\ deleted = FALSE
    /\ db = ProcessedVideo(text, audio)
    /\ blobs = {"source", "highlight"} \cup (IF audio THEN {"audio"} ELSE {})
    /\ pc = [r \in Runs |-> IF r = 1 THEN "mMark" ELSE "idle"]
    /\ doc = [r \in Runs |-> IF r = 1 THEN ProcessedVideo(text, audio) ELSE NewVideo]
    /\ dirty = [r \in Runs |-> {}]
    /\ errs = [r \in Runs |-> [transcription |-> "none", aiAnalysis |-> "none"]]
    /\ caught = [r \in Runs |-> "none"]
    /\ hlPc = [r \in Runs |-> "idle"]
    /\ saveFails = 0
    /\ started = 1
    /\ missingSeen = [r \in Runs |-> FALSE]
    /\ lateAdapter = [r \in Runs |-> FALSE]
    /\ raised = [r \in Runs |-> FALSE]
    /\ outer = [r \in Runs |-> FALSE]
    /\ insRan = [r \in Runs |-> {}]
    /\ termErr = [r \in Runs |-> {}]
    /\ res = [r \in Runs |-> NoRes]
    /\ tvLog = <<>>
    /\ rw = RwIdle
    /\ upd = [pc |-> "idle", tags |-> {}]
    /\ ups = [now |-> 0, calls |-> 0, first |-> 0]

NextInsights ==
  \/ rmi_mark(1) \/ rmi_spk(1) \/ rmi_sent(1) \/ rmi_topics(1) \/ rmi_kw(1)
  \/ rmi_save(1) \/ rmi_catch(1)

SpecInsights == InitInsights /\ [][NextInsights]_vars

(* ---- the claims ---- *)

\* run r has ended and the highlight task it detached has no save pending
RunOver(r) == pc[r] = "done" /\ hlPc[r] # "saving"

\* run r is in flight
InFlight(r) == pc[r] \notin {"idle", "done"}

\* the four Insights result lists of a document are empty
ListsEmpty(d) ==
  d.spk = "empty" /\ d.sent = "empty" /\ d.topics = "empty" /\ d.kw = "empty"

\* C1 (as stated): once a started run has ended, the record (if it still
\* exists) has a terminal aggregate status and no stage is left 'processing'.
C1_RunEndsTerminal ==
  \A r \in Runs :
    (started >= r /\ RunOver(r) /\ dbExists)
      => /\ db.status \in Terminal
         /\ db.tStatus # "processing"
         /\ db.aStatus # "processing"
         /\ db.iStatus # "processing"

\* C2 (as stated): a terminal aggregate status is 'completed' exactly when
\* Transcription or ContentAnalysis is 'completed', whichever path set it.
C2_CompletedIffAnySuccess ==
  (dbExists /\ db.status \in Terminal)
    => (db.status = "completed"
          <=> (db.tStatus = "completed" \/ db.aStatus = "completed"))

C4_PartialFailureCompletes ==
  \A r \in Runs :
    (RunOver(r) /\ dbExists /\ db.tStatus = "completed" /\ db.aStatus = "failed")
      => /\ db.status = "completed"
         /\ errs[r].aiAnalysis # "none"
         /\ db.text # "none"

C6_CreatedMeansTriggered ==
  (upPc \in {"done", "error"} /\ (dbExists \/ deleted)) => started = 1

\* C7 (as stated): a trigger for a record with a run in flight is rejected
\* or a no-op: two runs are never in flight for the same record.
C7_SingleRunInFlight == ~(InFlight(1) /\ InFlight(2))

\* C8: once findById or a save of run r has found the record missing, the
\* run calls no adapter, raises nothing to its caller, and a deleted record
\* is never there again.
C8_DeletedRecordEndsRun ==
  /\ \A r \in Runs : ~lateAdapter[r] /\ ~raised[r]
  /\ deleted => ~dbExists

\* C8 witness: the record was deleted after Transcription completed, a
\* later save of the run found it missing, and the run has ended
C8_Witness ==
  \E r \in Runs :
    /\ pc[r] = "done" /\ missingSeen[r] /\ doc[r].tStatus = "completed"
    /\ deleted /\ ~dbExists

\* C9 (as stated): after deleteVideo has succeeded no source, audio or
\* highlight blob of the record is left and the record is gone.
C9_DeleteRemovesEverything ==
  delOk => (~dbExists /\ blobs \cap {"source", "audio", "highlight"} = {})

\* C10 (as stated): without a Groq key, two calls of transcribeVideo with
\* the same input return the same placeholder.
C10_SamePlaceholder ==
  ~env.groq
    => \A i, j \in 1..Len(tvLog) :
         tvLog[i].input = tvLog[j].input => tvLog[i].text = tvLog[j].text

\* C10 (amended): without a Groq key, transcribeVideo does not reject and
\* returns one of the two placeholder transcripts, and the Transcription
\* stage is never failed for the missing configuration.
C10_PlaceholderWithoutError ==
  ~env.groq
    => /\ \A i \in 1..Len(tvLog) :
            tvLog[i].error = "none" /\ tvLog[i].text \in MockTexts
       /\ pc[1] = "tUpdate" => res[1].text \in MockTexts
       /\ errs[1].transcription \in {"none", "timeout", "saveError"}
       /\ doc[1].text \in MockTexts \cup {"none"}

\* C10 witness: two calls with the same input returned different
\* placeholders, and the stage completed
C10_Witness ==
  /\ ~env.groq /\ Len(tvLog) = 2
  /\ tvLog[1].input = tvLog[2].input /\ tvLog[1].text # tvLog[2].text
  /\ doc[1].tStatus = "completed" /\ doc[1].text \in MockTexts

\* C11 (as stated): a stage whose provider answered with a terminal error
\* is never marked 'completed' (with a substituted result).
C11_TerminalErrorFailsStage ==
  \A r \in Runs :
    /\ "transcription" \in termErr[r] => doc[r].tStatus # "completed"
    /\ "aiAnalysis" \in termErr[r] => doc[r].aStatus # "completed"

\* the result fields of the Insights sub-analyses, and the field that the
\* sub-analysis at a position of runMultiModalInsights writes
Lists == {"spk", "sent", "topics", "kw"}
OwnList(p) ==
  CASE p = "mSpk" -> "spk" [] p = "mSent" -> "sent" [] p = "mTopics" -> "topics"
    [] OTHER -> "kw"

\* C12: a sub-analysis step, whatever its provider does, goes on to the next
\* one and changes only its own result, which is the empty list when the
\* provider is not called; the save of the results stores all four as they
\* were returned, and the orchestrator then marks Insights 'completed'.
C12_SubAnalysisIsolated ==
  [][\A r \in Runs :
       /\ (pc[r] \in {"mSpk", "mSent", "mTopics", "mKw"} /\ pc'[r] # pc[r])
            => /\ pc'[r] \in {"mSent", "mTopics", "mKw", "mSave"}
               /\ \A n \in Lists \ {OwnList(pc[r])} : res'[r][n] = res[r][n]
               /\ OwnList(pc[r]) \notin insRan'[r] => res'[r][OwnList(pc[r])] = "empty"
       /\ (pc[r] = "mSave" /\ pc'[r] = "iDone")
            => \A n \in Lists : doc'[r][n] = res[r][n] /\ db'[n] = res[r][n]
       /\ (pc[r] = "iDone" /\ pc'[r] = "final")
            => doc'[r].iStatus = "completed" /\ db'.iStatus = "completed"
    ]_vars

\* C12 witness: the topic provider was called and left an empty list, the
\* keyword provider's result is stored, Insights is 'completed'
C12_Witness ==
  \E r \in Runs :
    /\ {"topics", "kw"} \subseteq insRan[r]
    /\ dbExists /\ db.topics = "empty" /\ db.kw = "data"
    /\ db.iStatus = "completed"

\* C13 (as stated): a sub-analysis whose provider was called found a
\* transcript with non-empty text on the document, and diarization found
\* the derived audio as well.
C13_ProvidersNeedTranscript ==
  \A r \in Runs :
    \A n \in insRan[r] :
      /\ HasText(doc[r])
      /\ n = "spk" => doc[r].audioId

\* C14 (as stated): the stored highlightReel status becomes 'ready' or
\* 'failed' only from 'processing'.
C14_HighlightViaProcessing ==
  [][(dbExists' /\ db'.hl \in {"ready", "failed"} /\ db'.hl # db.hl)
       => db.hl = "processing"]_vars

\* C15 (as stated): the save of the detached highlight task changes no
\* field of the record other than highlightReel, and it leaves the
\* orchestrator able to finish as it would have without the task.
C15_TaskWritesOnlyHighlight ==
  [][\A r \in Runs :
       (dbExists /\ hlPc[r] = "saving" /\ hlPc'[r] # "saving")
         => /\ \A f \in Fields \ {"hl"} : db'[f] = db[f]
            /\ alive']_vars

\* the errors of FnOutcomes by class: network errors and 5xx are transient,
\* a 4xx is terminal
TransientErrors == {"ETIMEDOUT", "status500"}
TerminalErrors == {"status400"}

\* C16: retryWithBackoff(fn, 3, d) with retryable errors on attempts 1 and 2
\* and success on attempt 3 returns the third result after exactly 3
\* invocations and the sleeps d, 2*d.
C16_ThirdAttemptSucceeds ==
  (/\ rw.max = 3 /\ rw.pc \in {"returned", "thrown"}
   /\ rw.fn[1] \in TransientErrors /\ rw.fn[2] \in TransientErrors
   /\ rw.fn[3] = "ok")
    => /\ rw.pc = "returned" /\ rw.result = 3
       /\ rw.calls = 3
       /\ rw.sleeps = <<rw.base, 2 * rw.base>>

\* C16 witness: such a call has returned
C16_Witness ==
  /\ rw.max = 3 /\ rw.pc = "returned" /\ rw.calls = 3
  /\ rw.fn = <<"ETIMEDOUT", "status500", "ok">>
  /\ rw.sleeps = <<5000, 10000>>

\* the first k-1 invocations of fn fail with retryable errors and the k-th
\* with a non-retryable one
TerminalAt(k) ==
  /\ k \in 1..rw.max
  /\ rw.fn[k] \in TerminalErrors
  /\ \A i \in 1..(k - 1) : rw.fn[i] \in TransientErrors

\* C17: with a non-retryable error on attempt k, fn is invoked at most k
\* times with at most k-1 sleeps, and the call ends by rethrowing after
\* exactly k invocations and k-1 sleeps.
C17_TerminalErrorRethrown ==
  \A k \in 1..MaxAttempts :
    (rw.pc # "idle" /\ TerminalAt(k))
      => /\ rw.calls <= k /\ Len(rw.sleeps) <= k - 1
         /\ rw.pc # "returned"
         /\ rw.pc = "thrown" => (rw.calls = k /\ Len(rw.sleeps) = k - 1)

\* C17 witness: a non-retryable error on attempt 1 of 3 has been rethrown
\* after one invocation and no sleep
C17_Witness ==
  /\ rw.max = 3 /\ rw.fn[1] = "status400"
  /\ rw.pc = "thrown" /\ rw.calls = 1 /\ rw.sleeps = <<>>

\* C18 (as stated): when the transcription call of a run (its first
\* attempt) exceeds the 5 minute timeout, the call is tried again: the run
\* does not go on to the catch block that marks the stage 'failed'.
C18_TimeoutIsRetried ==
  [][\A r \in Runs :
       (pc[r] = "tCall" /\ pc'[r] # "tCall" /\ caught'[r] = "timeout")
         => pc'[r] # "tCatch"]_vars

\* C19 (as stated): once ContentAnalysis has succeeded, no two tags of the
\* record are equal after case normalisation.
C19_TagsCaseNormalized ==
  LET lower(t) == IF t = "AI" THEN "ai" ELSE t
  IN (dbExists /\ db.aStatus = "completed")
       => \A t1, t2 \in db.tags : lower(t1) = lower(t2) => t1 = t2

\* C20 (as stated): a tag list written by updateVideo is never lost to a
\* save of the run: once the request is done the record holds its tags.
C20_UpdateNotLost ==
  (upd.pc = "done" /\ dbExists) => upd.tags \subseteq db.tags

\* C21 (as stated): in every persisted state a stage status 'completed'
\* comes with the stage's result, and a step that changes a stored result of
\* a stage is the save that stores the stage's status 'completed'.
C21_StatusWithResult ==
  [][(dbExists /\ dbExists')
       => /\ db'.tStatus = "completed" => db'.text # "none"
          /\ db'.aStatus = "completed" => db'.analysis
          /\ db'.text # db.text => db'.tStatus = "completed"
          /\ db'.analysis # db.analysis => db'.aStatus = "completed"
          /\ (\E n \in Lists : db'[n] # db[n]) => db'.iStatus = "completed"]_vars


\* C22: when every attempt fails with a retryable error, fn is invoked
\* exactly maxRetries times, the k-th sleep (k < maxRetries) lasts
\* baseDelay * 2^(k-1), there is no sleep after the last attempt, and the
\* call throws the error of the last attempt.
C22_ExhaustionRethrowsLast ==
  (rw.pc # "idle" /\ \A i \in 1..rw.max : rw.fn[i] \in TransientErrors)
    => /\ rw.calls <= rw.max
       /\ Len(rw.sleeps) <= rw.max - 1
       /\ \A k \in 1..Len(rw.sleeps) : rw.sleeps[k] = rw.base * 2^(k - 1)
       /\ rw.pc # "returned"
       /\ rw.pc = "thrown"
            => /\ rw.calls = rw.max
               /\ Len(rw.sleeps) = rw.max - 1
               /\ rw.error = rw.fn[rw.max]

\* C22 witness: three retryable failures, two sleeps, the third error thrown
C22_Witness ==
  /\ rw.max = 3 /\ rw.pc = "thrown" /\ rw.calls = 3
  /\ rw.fn = <<"ETIMEDOUT", "ETIMEDOUT", "status500">>
  /\ rw.sleeps = <<3000, 6000>>
  /\ rw.error = "status500"


\* C23: the stage statuses of the stored record and of a run's document are
\* ordered: ContentAnalysis is 'pending' until Transcription is terminal, and
\* Insights is 'pending' until ContentAnalysis is terminal.
C23_StagesOrdered ==
  LET ordered(d) ==
        /\ d.aStatus # "pending" => d.tStatus \in Terminal
        /\ d.iStatus # "pending" => d.aStatus \in Terminal
  IN /\ dbExists => ordered(db)
     /\ \A r \in Runs : ordered(doc[r])

\* C23 witness: Transcription failed, ContentAnalysis completed and Insights
\* is in progress on the stored record
C23_Witness ==
  /\ dbExists /\ db.tStatus = "failed" /\ db.aStatus = "completed"
  /\ db.iStatus = "processing"


\* the sub-analyses whose provider runMultiModalInsights calls for document d
Due(d) ==
  {n \in Lists : CASE n = "spk" -> Runs_spk(d) [] n = "sent" -> Runs_sent(d)
                   [] n = "topics" -> Runs_topics(d) [] OTHER -> Runs_kw(d)}

\* C24 (as stated): no sub-analysis waits for another one: once the provider
\* of one of them has answered, every sub-analysis that is due has been
\* started; and Insights is terminal only when none is left to run.
C24_FanOutConcurrent ==
  \A r \in Runs :
    /\ (pc[r] \in {"mSent", "mTopics", "mKw", "mSave"} /\ insRan[r] # {})
         => Due(doc[r]) \subseteq insRan[r]
    /\ doc[r].iStatus \in Terminal => pc[r] \notin {"mSpk", "mSent", "mTopics", "mKw"}


\* C25 (as stated): when the stored Insights status is 'failed', no
\* sub-analysis provider was called in the run.
C25_FailedBeforeFanOut ==
  \A r \in Runs : (dbExists /\ db.iStatus = "failed") => insRan[r] = {}


\* the fields of each stage: its status and its results
StageFields(s) ==
  CASE s = "transcription" -> {"tStatus", "text", "audioId"}
    [] s = "aiAnalysis" -> {"aStatus", "analysis"}
    [] OTHER -> {"iStatus", "iProgress", "spk", "sent", "topics", "kw", "hl"}

\* the stage whose update a run performs at a position
StageAt(p) ==
  CASE p = "tUpdate" -> "transcription"
    [] p = "aUpdate" -> "aiAnalysis"
    [] OTHER -> "insights"

\* C26: a step of updateTranscription, updateAiAnalysis or
\* runMultiModalInsights, also on a record whose stages were completed by
\* an earlier run, changes in the document and in the stored record neither
\* the status or result of another stage nor the aggregate status, and the
\* two update methods leave their own stage 'completed'.
C26_UpdateTouchesOwnStage ==
  [][\A r \in Runs :
       (pc[r] \in {"tUpdate", "aUpdate", "mMark", "mSpk", "mSent", "mTopics", "mKw",
                   "mSave", "mCatch"}
          /\ pc'[r] # pc[r])
         => /\ \A s \in {"transcription", "aiAnalysis", "insights"} \ {StageAt(pc[r])} :
                 \A f \in StageFields(s) : doc'[r][f] = doc[r][f] /\ db'[f] = db[f]
            /\ doc'[r].status = doc[r].status /\ db'.status = db.status
            /\ pc[r] \in {"mMark", "mSpk", "mSent", "mTopics", "mKw", "mSave", "mCatch"}
                 => doc'[r].iStatus = doc[r].iStatus /\ db'.iStatus = db.iStatus
            /\ (pc[r] = "tUpdate" /\ pc'[r] = "tDone")
                 => db'.tStatus = "completed" /\ db'.text = res[r].text
            /\ (pc[r] = "aUpdate" /\ pc'[r] = "aTags")
                 => db'.aStatus = "completed" /\ db'.analysis
    ]_vars

\* C26 witness: after the first run has ended, a second run has stored a new
\* transcript over the first one while the other stages stay completed
C26_Witness ==
  /\ pc[1] = "done" /\ pc[2] = "tDone" /\ dbExists
  /\ db.tStatus = "completed" /\ db.aStatus = "completed" /\ db.iStatus = "completed"
  /\ doc[1].text # doc[2].text /\ db.text = doc[2].text


\* C27: after any sequence of updateProcessingStatus calls, startedAt of the
\* document is the time of the first call with status 'processing' (unset
\* before it), and the stored startedAt is that time or not yet stored.
C27_StartedAtSetOnce ==
  /\ doc[1].startedAt = ups.first
  /\ dbExists => db.startedAt \in {0, ups.first}
  /\ (dbExists /\ "startedAt" \notin dirty[1] /\ pc[1] = "markProcessing")
       => db.startedAt = ups.first

\* C27 witness: 'processing' at time 1, a terminal status at time 2 and
\* 'processing' again at time 3; startedAt is still 1
C27_Witness ==
  /\ ups.calls = 3 /\ ups.first = 1
  /\ dbExists /\ db.startedAt = 1 /\ db.status = "processing" /\ db.completedAt = 2


\* C28 (as stated): the detached generateHighlightReel task never rejects,
\* so it never brings the process down through an unhandled rejection.
C28_TaskNeverRejects ==
  \A r \in Runs : hlPc[r] # "rejected" /\ (hlPc[r] # "idle" => alive)


\* C29 (as stated): a Transcription or ContentAnalysis status stored as
\* 'completed' is not changed to 'failed' by a later step of the run.
C29_CompletedStaysCompleted ==
  [][(dbExists /\ dbExists')
       => /\ db.tStatus = "completed" => db'.tStatus # "failed"
          /\ db.aStatus = "completed" => db'.aStatus # "failed"]_vars


====
